---- MODULE Spec2Model ----
(***************************************************************************)
(* SpeakTogether: the streaming caption pipeline.                          *)
(*                                                                         *)
(*  - the renderer (App component, src/frontend/src/caption-preload.js     *)
(*    from line 531): the audio and dashboard WebSocket handlers with      *)
(*    their three throttles, and updateCaptionOverlay;                     *)
(*  - the main process (src/frontend/src/main.js): the caption window      *)
(*    lifecycle (toggleCaptionOverlay, createCaptionWindow, show/hide/     *)
(*    destroy, the window's ready-to-show and closed events) and           *)
(*    updateCaptionText;                                                   *)
(*  - the caption window preload (caption-preload.js lines 11-40).         *)
(*                                                                         *)
(* Numbers that the code treats as fractions or percentages are kept in    *)
(* hundredths: 0.92 is 92, and 0.92 * 100 is 9200.                         *)
(***************************************************************************)
EXTENDS Integers, Sequences, FiniteSets, TLC

VARIABLES
    \* ---- clock (Date.now(), shared by the processes of one machine)
    now, ticks,
    \* ---- renderer: App component state and refs
    lastLanguageUpdate, lastAgentUpdate, lastTranscriptionUpdate,
    transcription, translation, confidence, translationConfidence,
    detectedLanguage, agentData, isListening, isConnected, isTranscribing,
    wsState,
    \* ---- history of the renderer's handlers (not program state)
    applied, acceptLog,
    \* ---- main process: SpeakTogetherApp fields and the BrowserWindows
    captionWindow, captionEnabled, windows, ret,
    \* ---- renderer: the capture session (toggleListening, language config)
    listenCalls, sourceLanguage, targetLanguage, languageConfig, uncaught,
    \* ---- backend: the speech buffer of the audio stream handler
    bufferDuration, silenceDuration, thresholds, frameDuration, emitted,
    \* ---- history of the publish handler and of the permission requests
    \* ---- (not program state)
    published, permission

appVars == <<lastLanguageUpdate, lastAgentUpdate, lastTranscriptionUpdate,
             transcription, translation, confidence, translationConfidence,
             detectedLanguage, agentData, isListening, isConnected,
             isTranscribing, wsState, applied, acceptLog>>
mainVars == <<captionWindow, captionEnabled, windows, ret>>
sessVars == <<listenCalls, sourceLanguage, targetLanguage, languageConfig,
              uncaught>>
segVars == <<bufferDuration, silenceDuration, thresholds, frameDuration,
             emitted>>
pubVars == <<published, permission>>
vars == <<now, ticks, appVars, mainVars, sessVars, segVars, pubVars>>

----------------------------------------------------------------------------
(* Bounds of the model *)

StartTime == 1000       \* Date.now() when the app starts
MaxTicks == 2           \* clock advances explored
MaxWindows == 2         \* BrowserWindow allocations explored

(* Program constants *)

LANGUAGE_UPDATE_THROTTLE == 425
AGENT_UPDATE_THROTTLE == 85
TRANSCRIPTION_UPDATE_THROTTLE == 40
VOLUME_GATE == 1000             \* volume_percent > 10, in hundredths
TRANSLATION_CONF_DEFAULT == 8500
TRANSLATION_CONF_RAW == 7500
TRANSLATION_CONF_ENHANCED == 9000

(* Missing values of a JavaScript object *)
NoText == "<undefined>"
NoNum == -1

\* a value that is present but whose typeof is not 'number'
NotANumber == -2

\* typeof c === 'number'
IsNumber(c) == c # NoNum /\ c # NotANumber

Deltas == {1, TRANSCRIPTION_UPDATE_THROTTLE, AGENT_UPDATE_THROTTLE,
           LANGUAGE_UPDATE_THROTTLE}

Transcripts == {NoText, " ", "Hola", "Adios"}
TranslationTexts == {NoText, "Hello"}
Confidences == {NoNum, 92}
Volumes == {1000, 5500}

----------------------------------------------------------------------------
(* JavaScript helpers *)

\* truthiness of a string-or-undefined value
Truthy(s) == s # NoText /\ s # ""

\* s && s.trim()
TrimTruthy(s) == Truthy(s) /\ s # " "

\* x ? x * 100 : 0
Conf100(c) == IF c = NoNum \/ c = 0 THEN 0 ELSE c * 100

\* a || b on strings
OrElse(a, b) == IF Truthy(a) THEN a ELSE b

\* s.toUpperCase() on the language codes that occur
Upper(s) == CASE s = "en" -> "EN" [] s = "es" -> "ES" [] OTHER -> s

----------------------------------------------------------------------------
(* Messages of the audio stream WebSocket *)

DetectedLangs == {NoText, "es"}

\* payload of `transcription` (fields on the message itself) and of
\* `transcription_result` (fields under data); hasTranslation says whether
\* the translation object is present, ttext is translation.text
ResultPayloads ==
    { [transcript |-> t, confidence |-> c, hasTranslation |-> h, ttext |-> x,
       polisher |-> p, language_detected |-> l] :
        t \in Transcripts, c \in Confidences, h \in BOOLEAN,
        x \in TranslationTexts, p \in BOOLEAN, l \in DetectedLangs }

WellShaped(m) ==
    /\ (~m.hasTranslation) => (m.ttext = NoText /\ ~m.polisher)
    /\ m.polisher => Truthy(m.ttext)

TranscriptionMsgs ==
    { m \in ResultPayloads : WellShaped(m) /\ m.language_detected = NoText }
ResultMsgs == { m \in ResultPayloads : WellShaped(m) }

\* the closure of audioWs.onmessage is created once, by the effect with no
\* dependencies: inside it sourceLanguage is the value of the first render
ClosureSourceLanguage == "en"

----------------------------------------------------------------------------
(* Main process: the BrowserWindow objects *)

\* this.captionWindow = null
NoWindow == 0

\* what the caption window's renderer was last handed by its preload
NoCaption ==
    [original |-> NoText, translation |-> NoText, confidence |-> NoNum,
     sourceLanguage |-> NoText, targetLanguage |-> NoText,
     timestamp |-> NoNum, fromTranscription |-> FALSE, isRealTime |-> FALSE]

\* (variant: a new window starts with the last published caption)
NewWindowWithBacklog ==
    [life |-> "live", visible |-> FALSE, load |-> "none", ready |-> FALSE,
     waiter |-> "none", shown |-> published.state]

\* a BrowserWindow just constructed with show: false
\*   life     "live", "closing" (close() called, `closed` not yet emitted),
\*            "destroyed"
\*   load     "none", "loading", "interactive" (DOMContentLoaded: the page
\*            has registered onCaptionUpdate), "complete", "failed"
\*   ready    the once('ready-to-show') listener is registered and has not
\*            run yet
\*   waiter   the caller awaiting loadURL/loadFile: "none", "enable", "force"
NewWindow ==
    [life |-> "live", visible |-> FALSE, load |-> "none", ready |-> FALSE,
     waiter |-> "none", shown |-> NoCaption]

DestroyedWindow ==
    [life |-> "destroyed", visible |-> FALSE, load |-> "none", ready |-> FALSE,
     waiter |-> "none", shown |-> NoCaption]

allocCount == Len(windows)

WindowIds == 1..Len(windows)

\* BrowserWindow.show(), .hide(), .close() on window w of ws
WShow(ws, w) == [ws EXCEPT ![w].visible = TRUE]
WHide(ws, w) == [ws EXCEPT ![w].visible = FALSE]
WClose(ws, w) == [ws EXCEPT ![w].life = "closing"]

\* How a platform call sequence ends: "ok", or an exception raised by one of
\* the calls
ShowOutcomes == {"ok", "show_raised", "focus_raised"}
HideOutcomes == {"ok", "hide_raised"}
CloseOutcomes == {"ok", "close_raised"}

\* showCaptionWindow(): the windows after it, and its return value
showCaptionWindow(ws, cw, o) ==
    IF cw = NoWindow THEN ws
    ELSE IF o = "show_raised" THEN ws
    ELSE WShow(ws, cw)

showCaptionWindowResult(cw, o) == cw # NoWindow /\ o = "ok"

\* (variant: hiding releases the window)
hideCaptionWindowReleasing(ws, cw, o) ==
    IF cw = NoWindow THEN ws
    ELSE IF o = "hide_raised" THEN ws
    ELSE WClose(WHide(ws, cw), cw)

\* hideCaptionWindow()
hideCaptionWindow(ws, cw, o) ==
    IF cw = NoWindow THEN ws
    ELSE IF o = "hide_raised" THEN ws
    ELSE WHide(ws, cw)

hideCaptionWindowResult(cw, o) == cw # NoWindow /\ o = "ok"

\* the cleanup in the catch of createCaptionWindow: close the window the
\* handle names, swallowing what close() raises, and clear the handle
CreateCleanup(ws, cw, o) ==
    IF cw = NoWindow THEN ws
    ELSE IF o = "close_raised" THEN ws
    ELSE WClose(ws, cw)

\* the overlay's state as the window handle and the window show it
OverlayState ==
    IF captionWindow = NoWindow THEN "Absent"
    ELSE IF windows[captionWindow].visible THEN "Visible"
    ELSE IF windows[captionWindow].ready THEN "Initializing"
    ELSE "Hidden"

\* the result record of a completed handler call
\*   success  the value returned ({success} of toggle, the boolean of force)
\*   raised   a platform window API raised during the call
\*   threw    the call let an exception escape to its caller
\*   from     the overlay's state when the call was made
\*   win      the handle when the call returned, before the call's own
\*            clearing of it
Ret(op, success, raised, from) ==
    [op |-> op, success |-> success, raised |-> raised, threw |-> FALSE,
     from |-> from, win |-> captionWindow]

----------------------------------------------------------------------------
(* Main process: createCaptionWindow up to its await *)

CreateOutcomes == {"ok", "ctor_raised", "ontop_raised"}

\* createCaptionWindow() entered with no window: the constructor, the
\* always-on-top call and the listener registrations run, and loadURL is
\* started; `who` is the handler that awaits it
CreateStart(who, o, co) ==
    /\ captionWindow = NoWindow
    /\ allocCount < MaxWindows
    /\ o \in CreateOutcomes
    /\ (o # "ontop_raised" => co = "ok")
    /\ CASE o = "ctor_raised" ->
              \* new BrowserWindow threw: nothing was assigned
              /\ UNCHANGED <<captionWindow, windows, captionEnabled>>
              /\ ret' = Ret(who, FALSE, TRUE, "Absent")
         [] o = "ontop_raised" ->
              \* setAlwaysOnTop threw: catch closes the window, clears the handle
              /\ windows' = CreateCleanup(Append(windows, NewWindow),
                                          Len(windows) + 1, co)
              /\ captionWindow' = NoWindow
              /\ UNCHANGED captionEnabled
              /\ ret' = Ret(who, FALSE, TRUE, "Absent")
         [] OTHER ->
              /\ windows' = Append(windows,
                     [NewWindow EXCEPT !.load = "loading", !.ready = TRUE,
                                       !.waiter = who])
              /\ captionWindow' = Len(windows) + 1
              /\ UNCHANGED <<captionEnabled, ret>>

----------------------------------------------------------------------------
(* Main process: the caption overlay handlers *)

\* ipcMain.handle('toggle-caption-overlay'), enabled = true, no window yet:
\* runs createCaptionWindow up to its await
EnableCreate(o, co) ==
    /\ CreateStart("enable", o, co)
    /\ UNCHANGED <<now, ticks, pubVars, sessVars, segVars, appVars>>

\* enabled = true with a window: showCaptionWindow, whose return value is
\* not looked at, then the flag and a success result
EnableShow(o) ==
    /\ captionWindow # NoWindow
    /\ windows' = showCaptionWindow(windows, captionWindow, o)
    /\ captionEnabled' = TRUE
    /\ ret' = Ret("enable", TRUE, o # "ok", OverlayState)
    /\ UNCHANGED <<captionWindow, now, ticks, pubVars, sessVars, segVars,
                   appVars>>

\* enabled = false
Disable(o) ==
    /\ windows' = hideCaptionWindow(windows, captionWindow, o)
    /\ captionEnabled' = FALSE
    /\ ret' = Ret("disable", TRUE, captionWindow # NoWindow /\ o # "ok",
                  OverlayState)
    /\ UNCHANGED <<captionWindow, now, ticks, pubVars, sessVars, segVars,
                   appVars>>

toggleCaptionOverlay(enabled, o, co) ==
    IF enabled
    THEN IF captionWindow = NoWindow
         THEN EnableCreate(o, co)
         ELSE o \in ShowOutcomes /\ co = "ok" /\ EnableShow(o)
    ELSE o \in HideOutcomes /\ co = "ok"
         /\ (captionWindow = NoWindow => o = "ok") /\ Disable(o)

\* ipcMain.handle('force-show-caption-window')
ForceShow(o, co) ==
    /\ IF captionWindow = NoWindow
       THEN CreateStart("force", o, co)
       ELSE /\ o \in ShowOutcomes /\ co = "ok"
            /\ windows' = showCaptionWindow(windows, captionWindow, o)
            /\ ret' = Ret("force", showCaptionWindowResult(captionWindow, o),
                          o # "ok", OverlayState)
            /\ UNCHANGED <<captionWindow, captionEnabled>>
    /\ UNCHANGED <<now, ticks, pubVars, sessVars, segVars, appVars>>

\* destroyCaptionWindow(): hide, close, clear the handle; the catch clears
\* the handle and the flag whatever was raised
destroyCaptionWindow(ho, co) ==
    /\ IF captionWindow = NoWindow
       THEN /\ ho = "ok" /\ co = "ok"
            /\ UNCHANGED windows
       ELSE windows' =
              IF ho = "hide_raised" THEN windows
              ELSE IF co = "close_raised" THEN WHide(windows, captionWindow)
              ELSE WClose(WHide(windows, captionWindow), captionWindow)
    /\ captionWindow' = NoWindow
    /\ captionEnabled' = FALSE
    /\ ret' = Ret("destroy", TRUE,
                  captionWindow # NoWindow /\ (ho # "ok" \/ co # "ok"),
                  OverlayState)
    /\ UNCHANGED <<now, ticks, pubVars, sessVars, segVars, appVars>>

----------------------------------------------------------------------------
(* Main process: events of a caption BrowserWindow *)

\* the page reaches DOMContentLoaded and registers onCaptionUpdate
LoadInteractive(w) ==
    /\ w \in WindowIds
    /\ windows[w].life = "live" /\ windows[w].load = "loading"
    /\ windows' = [windows EXCEPT ![w].load = "interactive"]
    /\ UNCHANGED <<captionWindow, captionEnabled, ret, now, ticks, pubVars,
                   sessVars, segVars, appVars>>

\* loadURL/loadFile resolves: createCaptionWindow returns to its caller
LoadDone(w, o) ==
    /\ w \in WindowIds
    /\ windows[w].life = "live" /\ windows[w].load = "interactive"
    /\ LET ws == [windows EXCEPT ![w].load = "complete", ![w].waiter = "none"]
       IN  IF windows[w].waiter = "enable"
           THEN /\ o = "ok"
                /\ windows' = ws
                /\ captionEnabled' = TRUE
                /\ ret' = Ret("enable", TRUE, FALSE, "Absent")
           ELSE /\ (captionWindow = NoWindow => o = "ok")
                /\ windows' = showCaptionWindow(ws, captionWindow, o)
                /\ ret' = Ret("force", showCaptionWindowResult(captionWindow, o),
                              captionWindow # NoWindow /\ o # "ok", "Absent")
                /\ UNCHANGED captionEnabled
    /\ UNCHANGED <<captionWindow, now, ticks, pubVars, sessVars, segVars,
                   appVars>>

\* loadURL/loadFile rejects: the catch of createCaptionWindow closes the
\* window the handle names now and clears the handle, then rethrows to the
\* caller, whose own catch returns the failure
LoadFail(w, co) ==
    /\ w \in WindowIds
    /\ windows[w].load \in {"loading", "interactive"}
    /\ (captionWindow = NoWindow => co = "ok")
    /\ windows' = CreateCleanup([windows EXCEPT ![w].load = "failed",
                                                ![w].waiter = "none"],
                                captionWindow, co)
    /\ captionWindow' = NoWindow
    /\ ret' = Ret(windows[w].waiter,
                  FALSE, TRUE, "Absent")
    /\ UNCHANGED <<captionEnabled, now, ticks, pubVars, sessVars, segVars,
                   appVars>>

\* once('ready-to-show'): reads this.captionWindow (a TypeError when it is
\* null, which ends the listener) and shows the window the handle names
ReadyToShow(w, o) ==
    /\ w \in WindowIds
    /\ windows[w].life = "live" /\ windows[w].ready
    /\ windows[w].load \in {"interactive", "complete"}
    /\ (captionWindow = NoWindow => o = "ok")
    /\ windows' = showCaptionWindow([windows EXCEPT ![w].ready = FALSE],
                                    captionWindow, o)
    /\ UNCHANGED <<captionWindow, captionEnabled, ret, now, ticks, pubVars,
                   sessVars, segVars, appVars>>

\* on('closed'): the window is gone (closed by close() or from outside).
\* The listener is registered after setAlwaysOnTop, so a window whose
\* creation failed there (load "none") has none.
Closed(w) ==
    /\ w \in WindowIds
    /\ windows[w].life \in {"live", "closing"}
    /\ windows[w].load # "none"
    /\ windows' = [windows EXCEPT
                     ![w] = IF windows[w].waiter = "none" THEN DestroyedWindow
                            ELSE [DestroyedWindow EXCEPT
                                     !.load = windows[w].load,
                                     !.waiter = windows[w].waiter]]
    /\ captionWindow' = NoWindow
    /\ captionEnabled' = FALSE
    /\ UNCHANGED <<ret, now, ticks, pubVars, sessVars, segVars, appVars>>

----------------------------------------------------------------------------
(* Main process: updateCaptionText, and the caption window's preload *)

\* (variants: the languages are always the defaults; the translated text
\* is read under `translation` only)
BilingualDataDefaultLanguages(data) ==
    [original |-> OrElse(data.original, OrElse(data.text, "")),
     translation |-> OrElse(data.translation, OrElse(data.translated, "")),
     confidence |-> IF IsNumber(data.confidence) THEN data.confidence ELSE 0,
     sourceLanguage |-> "auto",
     targetLanguage |-> "en",
     fromTranscription |-> data.fromTranscription \/ TRUE,
     isRealTime |-> data.isRealTime \/ TRUE,
     timestamp |-> now]

BilingualDataWithoutAlias(data) ==
    [original |-> OrElse(data.original, OrElse(data.text, "")),
     translation |-> OrElse(data.translation, ""),
     confidence |-> IF IsNumber(data.confidence) THEN data.confidence ELSE 0,
     sourceLanguage |-> OrElse(data.sourceLanguage,
                               OrElse(data.source_language, "auto")),
     targetLanguage |-> OrElse(data.targetLanguage,
                               OrElse(data.target_language, "en")),
     fromTranscription |-> data.fromTranscription \/ TRUE,
     isRealTime |-> data.isRealTime \/ TRUE,
     timestamp |-> now]

\* (variant: a supplied timestamp is kept)
BilingualDataKeepingTimestamp(data) ==
    [original |-> OrElse(data.original, OrElse(data.text, "")),
     translation |-> OrElse(data.translation, OrElse(data.translated, "")),
     confidence |-> IF IsNumber(data.confidence) THEN data.confidence ELSE 0,
     sourceLanguage |-> OrElse(data.sourceLanguage,
                               OrElse(data.source_language, "auto")),
     targetLanguage |-> OrElse(data.targetLanguage,
                               OrElse(data.target_language, "en")),
     fromTranscription |-> data.fromTranscription \/ TRUE,
     isRealTime |-> data.isRealTime \/ TRUE,
     timestamp |-> IF data.timestamp # NoNum THEN data.timestamp ELSE now]

\* (variant: the confidence is scaled to a percentage once more)
BilingualDataRescaling(data) ==
    [original |-> OrElse(data.original, OrElse(data.text, "")),
     translation |-> OrElse(data.translation, OrElse(data.translated, "")),
     confidence |-> IF IsNumber(data.confidence) THEN data.confidence * 100
                    ELSE 0,
     sourceLanguage |-> OrElse(data.sourceLanguage,
                               OrElse(data.source_language, "auto")),
     targetLanguage |-> OrElse(data.targetLanguage,
                               OrElse(data.target_language, "en")),
     fromTranscription |-> data.fromTranscription \/ TRUE,
     isRealTime |-> data.isRealTime \/ TRUE,
     timestamp |-> now]

\* the object sent on 'update-live-caption'
BilingualData(data) ==
    [original |-> OrElse(data.original, OrElse(data.text, "")),
     translation |-> OrElse(data.translation, OrElse(data.translated, "")),
     confidence |-> IF IsNumber(data.confidence) THEN data.confidence ELSE 0,
     sourceLanguage |-> OrElse(data.sourceLanguage,
                               OrElse(data.source_language, "auto")),
     targetLanguage |-> OrElse(data.targetLanguage,
                               OrElse(data.target_language, "en")),
     fromTranscription |-> data.fromTranscription \/ TRUE,
     isRealTime |-> data.isRealTime \/ TRUE,
     timestamp |-> now]

\* the preload's listener on 'update-live-caption': what it hands to the
\* renderer callback (a missing or zero timestamp is stamped)
ProcessedData(d) ==
    [original |-> OrElse(d.original, ""),
     translation |-> OrElse(d.translation, ""),
     confidence |-> IF IsNumber(d.confidence) THEN d.confidence ELSE 0,
     sourceLanguage |-> OrElse(d.sourceLanguage, "auto"),
     targetLanguage |-> OrElse(d.targetLanguage, "en"),
     timestamp |-> IF d.timestamp # NoNum /\ d.timestamp # 0
                   THEN d.timestamp ELSE now,
     fromTranscription |-> d.fromTranscription \/ FALSE,
     isRealTime |-> d.isRealTime \/ FALSE]

\* the caption page's updateConfidenceIndicator(confidence): the class it
\* gives the indicator; the comparisons with 0.8 and 0.6, in hundredths
CONFIDENCE_HIGH == 80
CONFIDENCE_LOW == 60

updateConfidenceIndicator(conf) ==
    IF conf >= CONFIDENCE_HIGH THEN "high"
    ELSE IF conf >= CONFIDENCE_LOW THEN "low"
    ELSE "very-low"

\* the page has registered its onCaptionUpdate callback
Listening(w) == windows[w].life = "live"
                /\ windows[w].load \in {"interactive", "complete"}

\* (variant: a window that is not visible is skipped)
updateCaptionTextVisibleOnly(data) ==
    IF captionWindow = NoWindow \/ windows[captionWindow].life = "destroyed"
    THEN UNCHANGED windows
    ELSE IF Listening(captionWindow) /\ windows[captionWindow].visible
         THEN windows' = [windows EXCEPT ![captionWindow].shown =
                                            ProcessedData(BilingualData(data))]
         ELSE UNCHANGED windows

\* updateCaptionText(data): nothing without a window; else webContents.send,
\* which reaches the preload listener if the page has registered one
updateCaptionText(data) ==
    IF captionWindow = NoWindow \/ windows[captionWindow].life = "destroyed"
    THEN UNCHANGED windows
    ELSE IF Listening(captionWindow)
         THEN windows' = [windows EXCEPT ![captionWindow].shown =
                                            ProcessedData(BilingualData(data))]
         ELSE UNCHANGED windows

\* ipcMain.handle('update-caption-text') invoked with any object a renderer
\* may pass
PublishInputs ==
    { [original |-> o, text |-> NoText, translation |-> t, translated |-> u,
       confidence |-> c,
       sourceLanguage |-> NoText, source_language |-> NoText,
       targetLanguage |-> NoText, target_language |-> NoText,
       fromTranscription |-> TRUE, timestamp |-> ts, language |-> NoText,
       isRealTime |-> TRUE] :
        o \in {"Hola"}, t \in {NoText, "Hello"}, u \in {NoText},
        c \in {92}, ts \in {NoNum, StartTime - 500} }

\* history: the object handed to the last publish, its canonical state and
\* the overlay state it was published to
NoData ==
    [original |-> NoText, text |-> NoText, translation |-> NoText,
     translated |-> NoText, confidence |-> NoNum,
     sourceLanguage |-> NoText, source_language |-> NoText,
     targetLanguage |-> NoText, target_language |-> NoText,
     fromTranscription |-> FALSE, timestamp |-> NoNum, language |-> NoText,
     isRealTime |-> FALSE]

NoPublish == [state |-> NoCaption, to |-> "none", data |-> NoData,
              sent |-> 0, updates |-> 0]

\* (variant: the page registers in both branches of its handler)
RegistrationsBothPaths(w) == IF Listening(w) THEN 2 ELSE 0

\* listeners the overlay page has added through captionAPI.onCaptionUpdate:
\* its DOMContentLoaded handler registers in exactly one of its two
\* branches, once per page load
Registrations(w) == IF Listening(w) THEN 1 ELSE 0

\* 'update-live-caption' messages one updateCaptionText call sends
SentMessages ==
    IF captionWindow = NoWindow \/ windows[captionWindow].life = "destroyed"
    THEN 0 ELSE 1

\* renderer callbacks one call causes: each registered preload listener
\* calls its callback once per message
RendererUpdates ==
    IF SentMessages = 0 THEN 0
    ELSE SentMessages * Registrations(captionWindow)

Publish(data) ==
    /\ updateCaptionText(data)
    /\ published' = [state |-> ProcessedData(BilingualData(data)),
                     to |-> OverlayState, data |-> data,
                     sent |-> SentMessages, updates |-> RendererUpdates]
    /\ UNCHANGED <<captionWindow, captionEnabled, ret, now, ticks, sessVars,
                   segVars, appVars, permission>>

\* objects with every combination of supplied and missing optional fields
CanonInputs ==
    { [original |-> "Hola", text |-> NoText, translation |-> t,
       translated |-> u, confidence |-> c,
       sourceLanguage |-> sl, source_language |-> NoText,
       targetLanguage |-> NoText, target_language |-> tl,
       fromTranscription |-> TRUE, timestamp |-> ts, language |-> NoText,
       isRealTime |-> TRUE] :
        t \in {NoText, "", "Hello"}, u \in {NoText, "Hi"},
        c \in {NoNum, NotANumber, 0, 92},
        sl \in {NoText, "es"}, tl \in {NoText, "fr"},
        ts \in {NoNum, StartTime - 500} }

----------------------------------------------------------------------------
(* Renderer: updateCaptionOverlay *)

\* the object handed to window.electronAPI.updateCaptionText (fields the
\* object does not carry are the missing values)
CaptionPayload(original, translated, conf) ==
    [original |-> original,
     text |-> NoText,
     translation |-> OrElse(translated, ""),
     translated |-> NoText,
     confidence |-> conf,
     sourceLanguage |-> NoText, source_language |-> NoText,
     targetLanguage |-> NoText, target_language |-> NoText,
     fromTranscription |-> TRUE,
     timestamp |-> now,
     language |-> OrElse(ClosureSourceLanguage, "en"),
     isRealTime |-> TRUE]

\* ipcRenderer.invoke('update-caption-text') is handled by the main process
\* in the order of the calls; the handler is taken at the time of the call
updateCaptionOverlay(original, translated, conf) ==
    updateCaptionText(CaptionPayload(original, translated, conf))

----------------------------------------------------------------------------
(* Renderer: the throttle gates and the audio WebSocket's onmessage *)

\* (variants of the gate: inclusive at the interval, and never closing)
ThrottlePassedInclusive(last, interval) == now - last >= interval
ThrottleOff(last, interval) == now - last >= 0

ThrottlePassed(last, interval) == now - last > interval

\* history: what the handler of the last event decided
\*   cat       the event's category
\*   accepted  the gate let it through (the category's timestamp is set)
\*   at, last  Date.now() at the event and the category's timestamp before it
\*   loud      volume_percent > 10 (TRUE for the other categories)
\*   notice    the handler showed the user a notice about the event
Applied(cat, accepted, last, loud) ==
    applied' = [cat |-> cat, accepted |-> accepted, at |-> now, last |-> last,
                loud |-> loud, notice |-> FALSE]

\* history: the times of the last two transcription-category updates that
\* were applied to the caption state
LogAccept == acceptLog' = <<acceptLog[2], now>>

\* the body shared by `transcription` and the regular `transcription_result`
\* path once the gate has passed and the transcript is not blank
ApplyTranscript(m, withTransConf, lang) ==
    /\ transcription' = m.transcript
    /\ confidence' = Conf100(m.confidence)
    /\ IF m.hasTranslation /\ Truthy(m.ttext)
       THEN /\ translation' = m.ttext
            /\ translationConfidence' = withTransConf
            /\ updateCaptionOverlay(m.transcript, m.ttext, Conf100(m.confidence))
       ELSE /\ translation' = ""
            /\ translationConfidence' = 0
            /\ updateCaptionOverlay(m.transcript, "", Conf100(m.confidence))
    /\ detectedLanguage' =
          [lang |-> Upper(lang), tag |-> "conf",
           val |-> IF m.confidence = NoNum \/ m.confidence = 0
                   THEN NoNum ELSE m.confidence * 100]
    /\ LogAccept

\* the gated part of both transcription paths
ThrottledTranscript(m, withTransConf, lang) ==
    IF ThrottlePassed(lastTranscriptionUpdate, TRANSCRIPTION_UPDATE_THROTTLE)
    THEN /\ IF TrimTruthy(m.transcript)
            THEN ApplyTranscript(m, withTransConf, lang)
            ELSE UNCHANGED <<transcription, confidence, translation,
                             translationConfidence, detectedLanguage,
                             acceptLog, windows>>
         /\ lastTranscriptionUpdate' = now
         /\ Applied("transcription", TRUE, lastTranscriptionUpdate, TRUE)
    ELSE /\ UNCHANGED <<transcription, confidence, translation,
                        translationConfidence, detectedLanguage, acceptLog,
                        windows, lastTranscriptionUpdate>>
         /\ Applied("transcription", FALSE, lastTranscriptionUpdate, TRUE)

\* audioWs.onmessage, data.type === 'transcription'
OnTranscription(m) ==
    /\ wsState = "open"
    /\ ThrottledTranscript(m, TRANSLATION_CONF_DEFAULT, ClosureSourceLanguage)
    /\ UNCHANGED <<now, ticks, pubVars, sessVars, segVars, lastLanguageUpdate,
                   lastAgentUpdate, agentData,
                   isListening, isConnected, isTranscribing, wsState,
                   captionWindow, captionEnabled, ret>>

\* the is_enhancement test of `transcription_result`
IsEnhancement(m, enh) == enh /\ m.hasTranslation

\* (variant: the enhancement takes the transcription slot)
ApplyEnhancementTakingSlot(m) ==
    /\ translation' = m.ttext
    /\ translationConfidence' = TRANSLATION_CONF_ENHANCED
    /\ updateCaptionOverlay(m.transcript, m.ttext, Conf100(m.confidence))
    /\ Applied("enhancement", TRUE, lastTranscriptionUpdate, TRUE)
    /\ lastTranscriptionUpdate' = now
    /\ UNCHANGED <<transcription, confidence, detectedLanguage, acceptLog,
                   isTranscribing>>

\* the enhancement branch, which returns before the throttle
ApplyEnhancement(m) ==
    /\ translation' = m.ttext
    /\ translationConfidence' = TRANSLATION_CONF_ENHANCED
    /\ updateCaptionOverlay(m.transcript, m.ttext, Conf100(m.confidence))
    /\ Applied("enhancement", TRUE, lastTranscriptionUpdate, TRUE)
    /\ UNCHANGED <<transcription, confidence, detectedLanguage, acceptLog,
                   lastTranscriptionUpdate, isTranscribing>>

\* audioWs.onmessage, data.type === 'transcription_result'
OnTranscriptionResult(m, enh) ==
    /\ wsState = "open"
    /\ IF IsEnhancement(m, enh)
       THEN ApplyEnhancement(m)
       ELSE /\ ThrottledTranscript(m,
                   IF m.polisher THEN TRANSLATION_CONF_DEFAULT
                                 ELSE TRANSLATION_CONF_RAW,
                   OrElse(m.language_detected, ClosureSourceLanguage))
            /\ isTranscribing' = FALSE
    /\ UNCHANGED <<now, ticks, pubVars, sessVars, segVars, lastLanguageUpdate,
                   lastAgentUpdate, agentData,
                   isListening, isConnected, wsState,
                   captionWindow, captionEnabled, ret>>

\* (variant: the chunk also counts as a transcription-category update)
OnAudioChunkSharedThrottle(volume) ==
    /\ wsState = "open"
    /\ IF volume > VOLUME_GATE
          /\ ThrottlePassed(lastLanguageUpdate, LANGUAGE_UPDATE_THROTTLE)
       THEN /\ detectedLanguage' = [lang |-> Upper(ClosureSourceLanguage),
                                    tag |-> "volume", val |-> volume]
            /\ lastLanguageUpdate' = now
            /\ lastTranscriptionUpdate' = now
            /\ Applied("language", TRUE, lastLanguageUpdate, TRUE)
       ELSE /\ UNCHANGED <<detectedLanguage, lastLanguageUpdate,
                           lastTranscriptionUpdate>>
            /\ Applied("language", FALSE, lastLanguageUpdate,
                       volume > VOLUME_GATE)
    /\ UNCHANGED <<now, ticks, pubVars, sessVars, segVars, lastAgentUpdate,
                   transcription, translation, confidence, translationConfidence,
                   agentData, isListening, isConnected, isTranscribing,
                   wsState, acceptLog, mainVars>>

\* audioWs.onmessage, data.type === 'audio_chunk'
OnAudioChunk(volume) ==
    /\ wsState = "open"
    /\ IF volume > VOLUME_GATE
          /\ ThrottlePassed(lastLanguageUpdate, LANGUAGE_UPDATE_THROTTLE)
       THEN /\ detectedLanguage' = [lang |-> Upper(ClosureSourceLanguage),
                                    tag |-> "volume", val |-> volume]
            /\ lastLanguageUpdate' = now
            /\ Applied("language", TRUE, lastLanguageUpdate, TRUE)
       ELSE /\ UNCHANGED <<detectedLanguage, lastLanguageUpdate>>
            /\ Applied("language", FALSE, lastLanguageUpdate,
                       volume > VOLUME_GATE)
    /\ UNCHANGED <<now, ticks, pubVars, sessVars, segVars, lastAgentUpdate,
                   lastTranscriptionUpdate,
                   transcription, translation, confidence, translationConfidence,
                   agentData, isListening, isConnected, isTranscribing,
                   wsState, acceptLog, mainVars>>

\* dashboardWs.onmessage (a parseable message)
AgentPayloads == {"agents"}

OnDashboardMessage(d) ==
    /\ IF ThrottlePassed(lastAgentUpdate, AGENT_UPDATE_THROTTLE)
       THEN /\ agentData' = d
            /\ lastAgentUpdate' = now
            /\ Applied("status", TRUE, lastAgentUpdate, TRUE)
       ELSE /\ UNCHANGED <<agentData, lastAgentUpdate>>
            /\ Applied("status", FALSE, lastAgentUpdate, TRUE)
    /\ UNCHANGED <<now, ticks, pubVars, sessVars, segVars, lastLanguageUpdate,
                   lastTranscriptionUpdate,
                   transcription, translation, confidence, translationConfidence,
                   detectedLanguage, isListening, isConnected, isTranscribing,
                   wsState, acceptLog, mainVars>>

\* the clock advances between two events
Tick(d) ==
    /\ ticks < MaxTicks
    /\ now' = now + d
    /\ ticks' = ticks + 1
    /\ UNCHANGED <<appVars, mainVars, sessVars, segVars, pubVars>>

----------------------------------------------------------------------------
(* Renderer: the audio WebSocket's connection events *)

WsOpen ==
    /\ wsState = "connecting"
    /\ wsState' = "open"
    /\ isConnected' = TRUE
    /\ UNCHANGED <<now, ticks, pubVars, sessVars, segVars, lastLanguageUpdate,
                   lastAgentUpdate,
                   lastTranscriptionUpdate, transcription, translation,
                   confidence, translationConfidence, detectedLanguage,
                   agentData, isListening, isTranscribing, applied, acceptLog,
                   mainVars>>

WsClose ==
    /\ wsState \in {"connecting", "open"}
    /\ wsState' = "closed"
    /\ isConnected' = FALSE
    /\ UNCHANGED <<now, ticks, pubVars, sessVars, segVars, lastLanguageUpdate,
                   lastAgentUpdate,
                   lastTranscriptionUpdate, transcription, translation,
                   confidence, translationConfidence, detectedLanguage,
                   agentData, isListening, isTranscribing, applied, acceptLog,
                   mainVars>>

----------------------------------------------------------------------------
(* Renderer: the capture session *)

MaxPending == 1         \* toggleListening calls awaiting the permission answer
MaxOverlap == 2         \* the same, where overlapping calls are the subject
MaxStarts == 2          \* start_capture messages counted since a stop_capture

Languages == {"en", "es"}

\* no start_capture or update_language_config has been sent
NoConfig == [source |-> NoText, target |-> NoText]

\* audioSocket && audioSocket.readyState === WebSocket.OPEN
SocketOpen == wsState = "open"

\* toggleListening() while not listening: the guard on isConnected, then the
\* call awaits requestAudioPermission() holding the languages of its render
ToggleListeningStart ==
    /\ ~isListening /\ isConnected
    /\ listenCalls' = Append(listenCalls, [source |-> sourceLanguage,
                                           target |-> targetLanguage])
    /\ UNCHANGED <<now, ticks, pubVars, appVars, mainVars, segVars,
                   sourceLanguage,
                   targetLanguage, languageConfig, uncaught>>

\* (variant: start_capture is sent whatever the answer)
StartCaptureUnconditional(granted) == SocketOpen

\* whether the call sends start_capture: permission?.granted and an open
\* socket
StartCaptureSent(granted) == granted /\ SocketOpen

\* requestAudioPermission() answers the oldest waiting call: when granted
\* the call sets isListening and isTranscribing and, if the socket is open,
\* sends start_capture with its languages. An answer of {granted: false},
\* and no answer at all (window.electronAPI undefined), are both FALSE
PermissionAnswer(granted) ==
    /\ listenCalls # <<>>
    /\ listenCalls' = Tail(listenCalls)
    /\ IF granted
       THEN /\ isListening' = TRUE
            /\ isTranscribing' = TRUE
       ELSE UNCHANGED <<isListening, isTranscribing>>
    /\ languageConfig' = IF StartCaptureSent(granted) THEN Head(listenCalls)
                         ELSE languageConfig
    /\ UNCHANGED <<now, ticks, published, mainVars, segVars, lastLanguageUpdate,
                   lastAgentUpdate, lastTranscriptionUpdate, transcription,
                   translation, confidence, translationConfidence,
                   detectedLanguage, agentData, isConnected, wsState, applied,
                   acceptLog, sourceLanguage, targetLanguage, uncaught>>

\* toggleListening() while listening: stop_capture is sent if the socket is
\* open
ToggleListeningStop ==
    /\ isListening
    /\ isListening' = FALSE
    /\ isTranscribing' = FALSE
    /\ UNCHANGED <<now, ticks, published, mainVars, segVars, sessVars,
                   lastLanguageUpdate,
                   lastAgentUpdate, lastTranscriptionUpdate, transcription,
                   translation, confidence, translationConfidence,
                   detectedLanguage, agentData, isConnected, wsState, applied,
                   acceptLog>>

\* audioWs.onmessage: audio_session_started (TRUE), audio_session_ended and
\* error (FALSE)
OnSessionMessage(started) ==
    /\ wsState = "open"
    /\ isListening' = started
    /\ UNCHANGED <<now, ticks, pubVars, mainVars, segVars, sessVars,
                   lastLanguageUpdate,
                   lastAgentUpdate, lastTranscriptionUpdate, transcription,
                   translation, confidence, translationConfidence,
                   detectedLanguage, agentData, isConnected, isTranscribing,
                   wsState, applied, acceptLog>>

\* audioWs.onmessage, data.type === 'audio_source_status': the fallback from
\* system audio to the microphone is announced in an alert and in the
\* language indicator; working system audio is shown in the indicator
AudioSources == {"system", "microphone", NoText}
SourceStatuses == {"fallback", "success"}

OnAudioSourceStatus(status, requested_source, actual_source) ==
    /\ wsState = "open"
    /\ IF /\ status = "fallback" /\ requested_source = "system"
          /\ actual_source = "microphone"
       THEN /\ detectedLanguage' = [lang |-> "MICROPHONE", tag |-> "fallback",
                                    val |-> NoNum]
            /\ applied' = [cat |-> "source_status", accepted |-> TRUE,
                           at |-> now, last |-> lastLanguageUpdate,
                           loud |-> TRUE, notice |-> TRUE]
       ELSE /\ detectedLanguage' =
                  IF status = "success" /\ actual_source = "system"
                  THEN [lang |-> "SYSTEM AUDIO", tag |-> "device",
                        val |-> NoNum]
                  ELSE detectedLanguage
            /\ applied' = [cat |-> "source_status",
                           accepted |-> (status = "success"
                                         /\ actual_source = "system"),
                           at |-> now, last |-> lastLanguageUpdate,
                           loud |-> TRUE, notice |-> FALSE]
    /\ UNCHANGED <<now, ticks, pubVars, mainVars, segVars, sessVars,
                   lastLanguageUpdate,
                   lastAgentUpdate, lastTranscriptionUpdate, transcription,
                   translation, confidence, translationConfidence,
                   agentData, isListening, isConnected, isTranscribing,
                   wsState, acceptLog>>

\* handleSourceLanguageChange(value) and handleTargetLanguageChange(value):
\* update_language_config is sent if the socket is open
handleSourceLanguageChange(value) ==
    /\ sourceLanguage' = value
    /\ languageConfig' = IF SocketOpen
                         THEN [source |-> value, target |-> targetLanguage]
                         ELSE languageConfig
    /\ UNCHANGED <<now, ticks, pubVars, appVars, mainVars, segVars,
                   listenCalls,
                   targetLanguage, uncaught>>

handleTargetLanguageChange(value) ==
    /\ targetLanguage' = value
    /\ languageConfig' = IF SocketOpen
                         THEN [source |-> sourceLanguage, target |-> value]
                         ELSE languageConfig
    /\ UNCHANGED <<now, ticks, pubVars, appVars, mainVars, segVars,
                   listenCalls,
                   sourceLanguage, uncaught>>

\* a frame that JSON.parse rejects. On the audio socket the handler's
\* try/catch logs it; on the dashboard socket nothing catches it
OnAudioUnparseable ==
    /\ wsState = "open"
    /\ applied' = [cat |-> "unparseable", accepted |-> FALSE, at |-> now,
                   last |-> lastTranscriptionUpdate, loud |-> TRUE, notice |-> FALSE]
    /\ UNCHANGED <<now, ticks, pubVars, mainVars, segVars, sessVars,
                   lastLanguageUpdate,
                   lastAgentUpdate, lastTranscriptionUpdate, transcription,
                   translation, confidence, translationConfidence,
                   detectedLanguage, agentData, isListening, isConnected,
                   isTranscribing, wsState, acceptLog>>

OnDashboardUnparseable ==
    /\ uncaught' = TRUE
    /\ applied' = [cat |-> "unparseable", accepted |-> FALSE, at |-> now,
                   last |-> lastAgentUpdate, loud |-> TRUE, notice |-> FALSE]
    /\ UNCHANGED <<now, ticks, pubVars, mainVars, segVars, lastLanguageUpdate,
                   lastAgentUpdate, lastTranscriptionUpdate, transcription,
                   translation, confidence, translationConfidence,
                   detectedLanguage, agentData, isListening, isConnected,
                   isTranscribing, wsState, acceptLog, listenCalls,
                   sourceLanguage, targetLanguage, languageConfig>>

\* the session's connection state as the spec names it
SessionState ==
    IF isListening THEN "Capturing"
    ELSE IF isConnected THEN "Connected"
    ELSE IF wsState = "connecting" THEN "Connecting"
    ELSE "Disconnected"

----------------------------------------------------------------------------
(* Backend: the speech buffer. Durations are in milliseconds. *)

SPEECH_BUFFER_TARGET_DURATION == 5000
SPEECH_BUFFER_MAX_DURATION == 15000
SPEECH_BUFFER_MIN_DURATION == 2000
SPEECH_SILENCE_THRESHOLD == 1500
SPEECH_VOLUME_THRESHOLD == 20

DefaultThresholds ==
    [min |-> SPEECH_BUFFER_MIN_DURATION,
     target |-> SPEECH_BUFFER_TARGET_DURATION,
     max |-> SPEECH_BUFFER_MAX_DURATION,
     silence |-> SPEECH_SILENCE_THRESHOLD]

\* update_speech_settings {target_buffer_duration: 7.0, silence_threshold: 2.0}
UpdatedThresholds ==
    [DefaultThresholds EXCEPT !.target = 7000, !.silence = 2000]

\* update_speech_settings raising the target to the maximum
TargetAtMaxThresholds ==
    [DefaultThresholds EXCEPT !.target = SPEECH_BUFFER_MAX_DURATION]

ThresholdConfigs == {DefaultThresholds, UpdatedThresholds, TargetAtMaxThresholds}

\* start_capture's audio_config: chunk_size samples at sample_rate, and the
\* one second of buffer_duration
sample_rate == 16000
chunk_size == 1024
ChunkMs == (1000 * chunk_size) \div sample_rate
BufferMs == 1000
FrameDurations == {ChunkMs, BufferMs}

\* captured loudness of a frame, in percent
FrameLoudness == {10, 20, 60}

\* (variants of the processing conditions: the silence condition without
\* its minimum, the target condition tested before the silence condition,
\* and the silence condition tested before the maximum)
ProcessReasonNoMinimum(buffer_duration, silence_duration, cfg) ==
    IF buffer_duration >= cfg.max THEN "max_duration_reached"
    ELSE IF silence_duration >= cfg.silence THEN "silence_break_detected"
    ELSE IF buffer_duration >= cfg.target THEN "target_duration_reached"
    ELSE "none"

ProcessReasonTargetFirst(buffer_duration, silence_duration, cfg) ==
    IF buffer_duration >= cfg.max THEN "max_duration_reached"
    ELSE IF buffer_duration >= cfg.target THEN "target_duration_reached"
    ELSE IF /\ buffer_duration >= cfg.min
            /\ silence_duration >= cfg.silence
         THEN "silence_break_detected"
    ELSE "none"

ProcessReasonSilenceFirst(buffer_duration, silence_duration, cfg) ==
    IF /\ buffer_duration >= cfg.min
       /\ silence_duration >= cfg.silence
    THEN "silence_break_detected"
    ELSE IF buffer_duration >= cfg.max THEN "max_duration_reached"
    ELSE IF buffer_duration >= cfg.target THEN "target_duration_reached"
    ELSE "none"

\* (variant: no target condition)
ProcessReasonWithoutTarget(buffer_duration, silence_duration, cfg) ==
    IF buffer_duration >= cfg.max THEN "max_duration_reached"
    ELSE IF /\ buffer_duration >= cfg.min
            /\ silence_duration >= cfg.silence
         THEN "silence_break_detected"
    ELSE "none"

\* the processing conditions, first match wins
ProcessReason(buffer_duration, silence_duration, cfg) ==
    IF buffer_duration >= cfg.max THEN "max_duration_reached"
    ELSE IF /\ buffer_duration >= cfg.min
            /\ silence_duration >= cfg.silence
         THEN "silence_break_detected"
    ELSE IF buffer_duration >= cfg.target THEN "target_duration_reached"
    ELSE "none"

\* outcome of the last frame: the reason decided and the two durations the
\* decision was taken on
NoSegment == [reason |-> "none", duration |-> 0, silence |-> 0]

\* ingest(frame): the frame extends the buffer; a frame louder than the
\* volume threshold restarts the silence, any other extends it; when a
\* condition holds the segment is emitted and the buffer starts again
Ingest(loudness) ==
    LET bd == bufferDuration + frameDuration
        sd == IF loudness > SPEECH_VOLUME_THRESHOLD THEN 0
              ELSE silenceDuration + frameDuration
        reason == ProcessReason(bd, sd, thresholds)
    IN  /\ emitted' = [reason |-> reason, duration |-> bd, silence |-> sd]
        /\ bufferDuration' = IF reason = "none" THEN bd ELSE 0
        /\ silenceDuration' = IF reason = "none" THEN sd ELSE 0
        /\ UNCHANGED <<now, ticks, pubVars, appVars, mainVars, sessVars,
                       thresholds,
                       frameDuration>>

----------------------------------------------------------------------------
(* Specifications *)

InitClock == now = StartTime /\ ticks = 0

InitApp ==
    /\ lastLanguageUpdate = 0 /\ lastAgentUpdate = 0
    /\ lastTranscriptionUpdate = 0
    /\ transcription = "" /\ translation = ""
    /\ confidence = 0 /\ translationConfidence = 0
    /\ detectedLanguage = [lang |-> "EN", tag |-> "init", val |-> NoNum]
    /\ agentData = NoText
    /\ isListening = FALSE /\ isConnected = FALSE /\ isTranscribing = FALSE
    /\ wsState = "connecting"
    /\ applied = [cat |-> "none", accepted |-> FALSE, at |-> 0, last |-> 0,
                  loud |-> TRUE, notice |-> FALSE]
    /\ acceptLog = <<NoNum, NoNum>>

InitSess ==
    /\ listenCalls = <<>>
    /\ sourceLanguage = "en" /\ targetLanguage = "en"
    /\ languageConfig = NoConfig
    /\ uncaught = FALSE

InitSeg ==
    /\ thresholds = DefaultThresholds
    /\ frameDuration = ChunkMs
    /\ bufferDuration = 0 /\ silenceDuration = 0
    /\ emitted = NoSegment

\* history: the answer to the last permission request, whether its call
\* sent start_capture, and whether any call was granted or sent one
\*   starts  start_capture messages sent since the last stop_capture
NoPermission ==
    [answer |-> "none", sent |-> FALSE, granted |-> FALSE,
     requested |-> FALSE, starts |-> 0]

Answered(granted) ==
    [answer |-> IF granted THEN "granted" ELSE "denied",
     sent |-> StartCaptureSent(granted),
     granted |-> permission.granted \/ granted,
     requested |-> permission.requested \/ StartCaptureSent(granted),
     starts |-> IF StartCaptureSent(granted) /\ permission.starts < MaxStarts
                THEN permission.starts + 1 ELSE permission.starts]

InitPub == published = NoPublish /\ permission = NoPermission

InitMain ==
    /\ captionWindow = NoWindow /\ captionEnabled = FALSE
    /\ windows = <<>>
    /\ ret = Ret("none", TRUE, FALSE, "Absent")

\* the overlay enabled and shown before the stream starts
InitMainShown ==
    /\ captionWindow = 1 /\ captionEnabled = TRUE
    /\ windows = << [NewWindow EXCEPT !.visible = TRUE, !.load = "complete"] >>
    /\ ret = Ret("enable", TRUE, FALSE, "Absent")

Init ==
    InitClock /\ InitApp /\ InitMain /\ InitSess /\ InitSeg /\ InitPub

\* the main process: the overlay lifecycle and update-caption-text
Next ==
    \/ \E e \in BOOLEAN, o \in CreateOutcomes \cup ShowOutcomes \cup HideOutcomes,
          co \in CloseOutcomes : toggleCaptionOverlay(e, o, co)
    \/ \E o \in CreateOutcomes \cup ShowOutcomes, co \in CloseOutcomes : ForceShow(o, co)
    \/ \E ho \in HideOutcomes, co \in CloseOutcomes : destroyCaptionWindow(ho, co)
    \/ \E w \in WindowIds : LoadInteractive(w)
    \/ \E w \in WindowIds, o \in ShowOutcomes : LoadDone(w, o)
    \/ \E w \in WindowIds, co \in CloseOutcomes : LoadFail(w, co)
    \/ \E w \in WindowIds, o \in ShowOutcomes : ReadyToShow(w, o)
    \/ \E w \in WindowIds : Closed(w)

Spec == Init /\ [][Next]_vars

\* the overlay lifecycle together with update-caption-text
NextOverlay ==
    \/ Next
    \/ \E data \in PublishInputs : Publish(data)

SpecOverlay == Init /\ [][NextOverlay]_vars

\* the renderer's throttles: every WebSocket handler, the clock stepping by
\* the throttle intervals, the overlay absent
ThrottleMsgs ==
    { m \in TranscriptionMsgs :
        /\ m.transcript \in {" ", "Hola"}
        /\ m.confidence = 92
        /\ ~m.polisher }

InitThrottle ==
    InitClock /\ InitApp /\ InitMain /\ InitSess /\ InitSeg /\ InitPub

NextThrottle ==
    \/ \E d \in Deltas : Tick(d)
    \/ WsOpen
    \/ WsClose
    \/ \E m \in ThrottleMsgs : OnTranscription(m)
    \/ \E m \in ThrottleMsgs, enh \in BOOLEAN : OnTranscriptionResult(m, enh)
    \/ \E v \in Volumes : OnAudioChunk(v)
    \/ \E d \in AgentPayloads : OnDashboardMessage(d)

SpecThrottle == InitThrottle /\ [][NextThrottle]_vars

\* the renderer's caption path: the transcription handlers with every
\* payload, the overlay absent or shown
StreamDeltas == {1, TRANSCRIPTION_UPDATE_THROTTLE + 1}

InitStream ==
    InitClock /\ InitApp /\ (InitMain \/ InitMainShown) /\ InitSess /\ InitSeg /\ InitPub

NextStream ==
    \/ \E d \in StreamDeltas : Tick(d)
    \/ WsOpen
    \/ WsClose
    \/ \E m \in TranscriptionMsgs : OnTranscription(m)
    \/ \E m \in ResultMsgs, enh \in BOOLEAN : OnTranscriptionResult(m, enh)

SpecStream == InitStream /\ [][NextStream]_vars

\* The capture session: the socket, the listen toggle with its permission
\* await, the language selectors, and messages on both channels, with an
\* overlay window already showing.
SessionMsgs ==
    { m \in TranscriptionMsgs :
        /\ m.transcript \in {NoText, "Hola"}
        /\ m.confidence = 92 /\ ~m.hasTranslation }

InitSession ==
    InitClock /\ InitApp /\ InitMainShown /\ InitSess /\ InitSeg /\ InitPub

NextSession ==
    \/ \E d \in StreamDeltas : Tick(d)
    \/ WsOpen
    \/ WsClose
    \/ Len(listenCalls) < MaxPending /\ ToggleListeningStart
    \/ \E granted \in BOOLEAN :
          PermissionAnswer(granted) /\ UNCHANGED permission
    \/ ToggleListeningStop /\ UNCHANGED permission
    \/ \E started \in BOOLEAN : OnSessionMessage(started)
    \/ \E value \in Languages : handleSourceLanguageChange(value)
    \/ \E value \in Languages : handleTargetLanguageChange(value)
    \/ \E m \in SessionMsgs : OnTranscription(m)
    \/ OnAudioUnparseable
    \/ OnDashboardUnparseable

SpecSession == InitSession /\ [][NextSession]_vars

\* The capture session with the history of its permission requests. The
\* server announces audio_session_started in reply to a start_capture.
RequestAnswered(granted) ==
    /\ PermissionAnswer(granted)
    /\ permission' = Answered(granted)

\* toggleListening() while listening, with the stop_capture it sends on an
\* open socket recorded
StopRecorded ==
    /\ ToggleListeningStop
    /\ permission' = [permission EXCEPT
                         !.starts = IF SocketOpen THEN 0 ELSE @]

SessionStartedReply ==
    /\ permission.requested
    /\ OnSessionMessage(TRUE)

NextPermission ==
    \/ \E d \in StreamDeltas : Tick(d)
    \/ WsOpen
    \/ WsClose
    \/ Len(listenCalls) < MaxPending /\ ToggleListeningStart
    \/ \E granted \in BOOLEAN : RequestAnswered(granted)
    \/ StopRecorded
    \/ SessionStartedReply
    \/ OnSessionMessage(FALSE)
    \/ \E st \in SourceStatuses, r \in AudioSources, a \in AudioSources :
          OnAudioSourceStatus(st, r, a)
    \/ \E value \in Languages : handleSourceLanguageChange(value)
    \/ \E value \in Languages : handleTargetLanguageChange(value)

SpecPermission == InitSession /\ [][NextPermission]_vars

\* Audio chunks arriving in every state of the session: before and after
\* start_capture, with and without a caption on the overlay.
NextChunk ==
    \/ \E d \in StreamDeltas : Tick(d)
    \/ WsOpen
    \/ WsClose
    \/ Len(listenCalls) < MaxPending /\ ToggleListeningStart
    \/ \E granted \in BOOLEAN : RequestAnswered(granted)
    \/ StopRecorded
    \/ \E m \in SessionMsgs : OnTranscription(m)
    \/ \E v \in Volumes : OnAudioChunk(v)

SpecChunk == InitSession /\ [][NextChunk]_vars

\* The listen button pressed again while earlier presses still await the
\* permission answer, on one socket that stays open.
NextOverlap ==
    \/ WsOpen
    \/ Len(listenCalls) < MaxOverlap /\ ToggleListeningStart
    \/ \E granted \in BOOLEAN : RequestAnswered(granted)
    \/ StopRecorded
    \/ \E value \in Languages : handleSourceLanguageChange(value)
    \/ \E value \in Languages : handleTargetLanguageChange(value)

SpecOverlap == InitSession /\ [][NextOverlap]_vars


\* The speech buffer alone: one session with a fixed configuration and a
\* fixed frame length, fed loud and quiet frames in any order.
InitSegmenter ==
    /\ InitClock /\ InitApp /\ InitMain /\ InitSess /\ InitPub
    /\ thresholds \in ThresholdConfigs
    /\ frameDuration \in FrameDurations
    /\ bufferDuration = 0 /\ silenceDuration = 0
    /\ emitted = NoSegment

NextSegmenter == \E loudness \in FrameLoudness : Ingest(loudness)

SpecSegmenter == InitSegmenter /\ [][NextSegmenter]_vars

\* Publishing to the overlay while it is enabled and disabled: the platform
\* calls succeed, the clock advances, and any caption may be published at
\* any time.
NextPublish ==
    \/ \E d \in StreamDeltas : Tick(d)
    \/ \E e \in BOOLEAN : toggleCaptionOverlay(e, "ok", "ok")
    \/ \E w \in WindowIds : LoadInteractive(w)
    \/ \E w \in WindowIds : LoadDone(w, "ok")
    \/ \E w \in WindowIds : ReadyToShow(w, "ok")
    \/ \E w \in WindowIds : Closed(w)
    \/ \E data \in PublishInputs : Publish(data)

SpecPublish == Init /\ [][NextPublish]_vars

\* Captions published, with any combination of supplied and missing
\* optional fields, to an overlay window that is showing with its page
\* loaded.
InitDelivery ==
    InitClock /\ InitApp /\ InitMainShown /\ InitSess /\ InitSeg /\ InitPub

NextDelivery ==
    \/ \E d \in StreamDeltas : Tick(d)
    \/ \E data \in CanonInputs : Publish(data)

SpecDelivery == InitDelivery /\ [][NextDelivery]_vars

\* One session's deliveries to an overlay window that is showing: the
\* renderer's transcriptions and enhancements, and captions published
\* directly, as the clock advances.
TimelineMsgs ==
    { m \in ResultMsgs :
        /\ m.transcript = "Hola" /\ m.language_detected = NoText
        /\ ~m.polisher }

NextTimeline ==
    \/ \E d \in StreamDeltas : Tick(d)
    \/ WsOpen
    \/ \E data \in PublishInputs : Publish(data)
    \/ \E m \in TimelineMsgs, enh \in BOOLEAN : OnTranscriptionResult(m, enh)

SpecTimeline == InitDelivery /\ [][NextTimeline]_vars

\* Captions published with either flag set or cleared, to an overlay that
\* is being hidden and shown.
FlagInputs ==
    { [original |-> "Hola", text |-> NoText, translation |-> "Hello",
       translated |-> NoText, confidence |-> 92,
       sourceLanguage |-> "es", source_language |-> NoText,
       targetLanguage |-> "en", target_language |-> NoText,
       fromTranscription |-> ft, timestamp |-> NoNum, language |-> NoText,
       isRealTime |-> rt] :
        ft \in BOOLEAN, rt \in BOOLEAN }

NextFlags ==
    \/ \E d \in StreamDeltas : Tick(d)
    \/ \E e \in BOOLEAN : toggleCaptionOverlay(e, "ok", "ok")
    \/ \E data \in FlagInputs : Publish(data)

SpecFlags == InitDelivery /\ [][NextFlags]_vars

\* Transcription results over the range of recognizer confidences (0, 0.01,
\* 0.5, 0.6, 0.7, 0.8, 0.92 and 1, in hundredths), the overlay shown.
IndicatorMsgs ==
    { [transcript |-> "Hola", confidence |-> c, hasTranslation |-> FALSE,
       ttext |-> NoText, polisher |-> FALSE, language_detected |-> NoText] :
        c \in {0, 1, 50, 60, 70, 80, 92, 100} }

NextIndicator ==
    \/ \E d \in StreamDeltas : Tick(d)
    \/ WsOpen
    \/ \E m \in IndicatorMsgs : OnTranscription(m)
    \/ \E m \in IndicatorMsgs : OnTranscriptionResult(m, FALSE)

SpecIndicator == InitDelivery /\ [][NextIndicator]_vars

----------------------------------------------------------------------------
(* Claims *)

Shown == windows[captionWindow].shown

Gap == applied.at - applied.last

\* C1 (as stated): for each throttle category an event is accepted if and
\* only if now - lastAcceptedTimestamp[category] >= interval[category]; an
\* event exactly interval ms after the last accepted one is accepted.
C1_AcceptedIffAtLeastInterval ==
    /\ applied.cat = "transcription" =>
          (applied.accepted <=> Gap >= TRANSCRIPTION_UPDATE_THROTTLE)
    /\ applied.cat = "status" =>
          (applied.accepted <=> Gap >= AGENT_UPDATE_THROTTLE)
    /\ applied.cat = "language" =>
          (applied.accepted <=> Gap >= LANGUAGE_UPDATE_THROTTLE)

\* C1 (amended): an event is accepted if and only if strictly more than the
\* category's interval has passed since the last accepted one (and, for an
\* audio_chunk, its volume is above 10%); an event exactly interval ms after
\* the last accepted one is dropped.
C1_AcceptedIffOverInterval ==
    /\ applied.cat = "transcription" =>
          (applied.accepted <=> Gap > TRANSCRIPTION_UPDATE_THROTTLE)
    /\ applied.cat = "status" =>
          (applied.accepted <=> Gap > AGENT_UPDATE_THROTTLE)
    /\ applied.cat = "language" =>
          (applied.accepted <=> (applied.loud /\ Gap > LANGUAGE_UPDATE_THROTTLE))
    /\ (applied.cat = "transcription" /\ applied.accepted) =>
          lastTranscriptionUpdate = applied.at
    /\ (applied.cat = "transcription" /\ ~applied.accepted) =>
          lastTranscriptionUpdate = applied.last
    /\ (applied.cat = "status") =>
          lastAgentUpdate = (IF applied.accepted THEN applied.at ELSE applied.last)
    /\ (applied.cat = "language") =>
          lastLanguageUpdate = (IF applied.accepted THEN applied.at ELSE applied.last)

\* a transcription event exactly 40 ms after the last accepted one was dropped
C1_Witness ==
    /\ applied.cat = "transcription" /\ ~applied.accepted
    /\ applied.last >= StartTime
    /\ Gap = TRANSCRIPTION_UPDATE_THROTTLE

\* C2: any two accepted transcription-category updates of the session, the
\* legacy and the full path together, are at least 40 ms apart.
C2_AcceptedUpdatesApart ==
    acceptLog[1] # NoNum =>
        acceptLog[2] - acceptLog[1] >= TRANSCRIPTION_UPDATE_THROTTLE

\* two updates were accepted, the second as early as the gate allows
C2_Witness ==
    /\ acceptLog[1] # NoNum
    /\ acceptLog[2] - acceptLog[1] = TRANSCRIPTION_UPDATE_THROTTLE + 1

\* C3 (as stated): applying an enhancement to the caption it refers to
\* leaves the caption state's original and timestamp as they were.
C3_EnhancementKeepsOriginalAndTimestamp ==
    [][ \A m \in ResultMsgs :
          ( /\ OnTranscriptionResult(m, TRUE)
            /\ IsEnhancement(m, TRUE)
            /\ captionWindow # NoWindow
            /\ Shown # NoCaption
            /\ Shown.original = m.transcript )
          => ( /\ Shown'.original = Shown.original
               /\ Shown'.timestamp = Shown.timestamp ) ]_vars

\* C4 (as stated): an enhancement whose utterance is no longer the current
\* caption is dropped: the caption state, translation included, is unchanged
\* and nothing is published.
C4_StaleEnhancementDropped ==
    [][ \A m \in ResultMsgs :
          ( /\ OnTranscriptionResult(m, TRUE)
            /\ IsEnhancement(m, TRUE)
            /\ Truthy(transcription)
            /\ m.transcript # transcription )
          => ( /\ translation' = translation
               /\ translationConfidence' = translationConfidence
               /\ windows' = windows ) ]_vars

\* C5: an enhancement is applied however little time has passed since the
\* last accepted transcription event, and leaves the transcription
\* category's timestamp as it was.
C5_EnhancementBypassesThrottle ==
    applied.cat = "enhancement" =>
        /\ applied.accepted
        /\ translationConfidence = TRANSLATION_CONF_ENHANCED
        /\ lastTranscriptionUpdate = applied.last

\* an enhancement for the current caption applied within the throttle
\* interval of the transcription event it refines
C5_Witness ==
    /\ applied.cat = "enhancement"
    /\ applied.last >= StartTime
    /\ Gap <= TRANSCRIPTION_UPDATE_THROTTLE
    /\ transcription = "Hola" /\ translation = "Hello"
    /\ lastTranscriptionUpdate = applied.last

\* a createCaptionWindow() is awaiting its content load
CreateInProgress == \E w \in WindowIds : windows[w].waiter # "none"

LifecycleCall ==
    \/ \E e \in BOOLEAN, o \in CreateOutcomes \cup ShowOutcomes \cup HideOutcomes,
          co \in CloseOutcomes : toggleCaptionOverlay(e, o, co)
    \/ \E o \in CreateOutcomes \cup ShowOutcomes, co \in CloseOutcomes :
          ForceShow(o, co)
    \/ \E ho \in HideOutcomes, co \in CloseOutcomes : destroyCaptionWindow(ho, co)

\* C6 (as stated): a lifecycle operation issued while another is in progress
\* does not act on the window before the earlier one has completed.
C6_LifecycleSerialized ==
    [][ (CreateInProgress /\ LifecycleCall)
          => UNCHANGED <<windows, captionWindow, captionEnabled>> ]_vars

\* C7: disable() from Visible hides the window and keeps its handle and the
\* resource; enable() on the hidden window shows that same resource, with no
\* new allocation.
C7_DisableThenEnableReusesWindow ==
    [][ /\ (OverlayState = "Visible" /\ Disable("ok")) =>
              /\ captionWindow' = captionWindow
              /\ windows'[captionWindow].life = "live"
              /\ ~windows'[captionWindow].visible
              /\ allocCount' = allocCount
        /\ (captionWindow # NoWindow /\ ~windows[captionWindow].visible
              /\ EnableShow("ok")) =>
              /\ captionWindow' = captionWindow
              /\ windows'[captionWindow].life = "live"
              /\ windows'[captionWindow].visible
              /\ allocCount' = allocCount ]_vars

\* enable() has re-shown the one window ever allocated, from Hidden
C7_Witness ==
    /\ ret.op = "enable" /\ ret.from = "Hidden" /\ ~ret.raised
    /\ OverlayState = "Visible"
    /\ allocCount = 1

FailedEnableFromAbsent ==
    \/ \E o \in {"ctor_raised", "ontop_raised"}, co \in CloseOutcomes :
          EnableCreate(o, co)
    \/ \E w \in WindowIds, co \in CloseOutcomes :
          windows[w].waiter = "enable" /\ LoadFail(w, co)

\* C8 (as stated): a failed enable() from Absent returns a failure result
\* without throwing and leaves the overlay Absent, the handle cleared and
\* the enabled flag false.
C8_FailedEnableLeavesAbsentDisabled ==
    [][ FailedEnableFromAbsent =>
          /\ ret'.success = FALSE /\ ~ret'.threw
          /\ captionWindow' = NoWindow
          /\ captionEnabled' = FALSE ]_vars

PlatformErrorOnExistingWindow ==
    \/ \E o \in ShowOutcomes \ {"ok"} : EnableShow(o)
    \/ captionWindow # NoWindow /\ Disable("hide_raised")

\* C9 (as stated): a platform window API raising during enable() or
\* disable() on an existing window clears the resource (Destroyed-Error)
\* and the call returns a failure result.
C9_PlatformErrorClearsAndFails ==
    [][ PlatformErrorOnExistingWindow =>
          /\ captionWindow' = NoWindow
          /\ ret'.success = FALSE /\ ~ret'.threw ]_vars

\* C10 (as stated): destroy() never throws and leaves the overlay Absent
\* with the handle cleared and the flag false; from Absent it changes
\* nothing.
C10_DestroyAlwaysSafe ==
    [][ (\E ho \in HideOutcomes, co \in CloseOutcomes :
            destroyCaptionWindow(ho, co))
          => /\ ~ret'.threw
             /\ captionWindow' = NoWindow
             /\ captionEnabled' = FALSE
             /\ (captionWindow = NoWindow =>
                   UNCHANGED <<windows, captionWindow, captionEnabled>>) ]_vars

\* C11 (as stated): enable() from Absent allocates the window without
\* showing it (Initializing); the overlay stays Initializing until the ready
\* signal and becomes Visible only on that signal; the ready signal,
\* delivered to the window the handle names, makes it Visible.
C11_InitializingUntilReadySignal ==
    [][ /\ (EnableCreate("ok", "ok")) =>
              /\ captionWindow' = allocCount + 1
              /\ allocCount' = allocCount + 1
              /\ OverlayState' = "Initializing"
        /\ (OverlayState = "Initializing" /\ OverlayState' = "Visible") =>
              \E w \in WindowIds, o \in ShowOutcomes : ReadyToShow(w, o)
        /\ \A w \in WindowIds, o \in {"ok", "focus_raised"} :
              ( /\ captionWindow = w /\ OverlayState = "Initializing"
                /\ ReadyToShow(w, o) )
              => OverlayState' = "Visible" ]_vars

\* C12 (as stated): the session state moves only along Disconnected ->
\* Connecting -> Connected -> Capturing -> Connected -> Disconnected, or from
\* any state to Disconnected on close; the client is capturing only while
\* the channel is connected and starts capturing only from Connected.
LegalSessionStep(from, to) ==
    \/ from = to
    \/ to = "Disconnected"
    \/ <<from, to>> \in { <<"Disconnected", "Connecting">>,
                          <<"Connecting", "Connected">>,
                          <<"Connected", "Capturing">>,
                          <<"Capturing", "Connected">> }

C12_SessionStateMachine ==
    [][ /\ LegalSessionStep(SessionState, SessionState')
        /\ isListening' => isConnected'
        /\ (~isListening /\ isListening') => isConnected ]_vars

\* C13 (as stated): after the channel's close event the session is neither
\* connected nor capturing, whatever state it was in.
C13_CloseDisconnects ==
    [][ WsClose => (~isConnected' /\ ~isListening') ]_vars

\* C14 (as stated): a message that cannot be parsed, or that lacks the
\* fields its type requires, is dropped: connection and capture state, the
\* caption state and the throttle timestamps are unchanged and no exception
\* escapes the handler, on the audio channel and on the agent channel.
MalformedMessage ==
    \/ OnAudioUnparseable
    \/ OnDashboardUnparseable
    \/ \E m \in SessionMsgs : m.transcript = NoText /\ OnTranscription(m)

C14_MalformedMessageDropped ==
    [][ MalformedMessage =>
          /\ UNCHANGED <<wsState, isConnected, isListening>>
          /\ UNCHANGED <<transcription, translation, confidence, windows,
                         agentData>>
          /\ UNCHANGED <<lastLanguageUpdate, lastAgentUpdate,
                         lastTranscriptionUpdate>>
          /\ ~uncaught' ]_vars

\* the last frame ended a segment
Emitted == emitted.reason # "none"

C16_SilencePathIffMinAndSilence ==
    /\ emitted.reason = "silence_break_detected"
          <=> /\ emitted.duration >= thresholds.min
              /\ emitted.silence >= thresholds.silence
              /\ ~(emitted.duration >= thresholds.max)
    /\ ( /\ emitted.duration < thresholds.min
         /\ emitted.silence >= thresholds.silence ) => ~Emitted

\* a silence-path emission whose silence had reached the threshold a frame
\* earlier, when the buffer was still shorter than minDuration
C16_Witness ==
    /\ emitted.reason = "silence_break_detected"
    /\ emitted.silence - frameDuration >= thresholds.silence
    /\ emitted.duration - frameDuration < thresholds.min

\* C17: the rules are evaluated in the order hard cap, silence break, target
\* duration and the first that holds decides; a frame with bufferDuration >=
\* maxDuration emits for the hard-cap reason whatever the silence is.
C17_HardCapFirst ==
    /\ emitted.duration >= thresholds.max
          => emitted.reason = "max_duration_reached"
    /\ emitted.reason = "silence_break_detected"
          => emitted.duration < thresholds.max
    /\ emitted.reason = "target_duration_reached"
          => /\ emitted.duration < thresholds.max
             /\ ~( /\ emitted.duration >= thresholds.min
                   /\ emitted.silence >= thresholds.silence )

\* the hard cap fired on a frame on which the silence rule held as well
C17_Witness ==
    /\ emitted.reason = "max_duration_reached"
    /\ emitted.duration >= thresholds.min
    /\ emitted.silence >= thresholds.silence

\* C18 (as stated): for every accepted transcription the caption delivered
\* to the overlay carries sourceLanguage and targetLanguage equal to the
\* language configuration last sent in start_capture or
\* update_language_config.
AcceptedSessionTranscription ==
    \E m \in SessionMsgs :
        /\ TrimTruthy(m.transcript)
        /\ OnTranscription(m)
        /\ applied'.accepted
        /\ Listening(captionWindow)

C18_DeliveredLanguagesFollowConfig ==
    [][ (AcceptedSessionTranscription /\ languageConfig # NoConfig) =>
          /\ Shown'.original = "Hola"
          /\ Shown'.sourceLanguage = languageConfig.source
          /\ Shown'.targetLanguage = languageConfig.target ]_vars

\* C19: for every accepted transcription with confidence c the caption
\* delivered to the overlay has confidence 100 * c (0.92 gives 92), and 0
\* when the confidence is missing; publish and the overlay preload do not
\* scale it again. (c is kept in hundredths, so 100 * c is c * 100 here.)
AcceptedTranscriptionOf(m) ==
    /\ applied'.cat = "transcription" /\ applied'.accepted
    /\ captionWindow # NoWindow /\ Listening(captionWindow)
    /\ TrimTruthy(m.transcript) /\ transcription' = m.transcript
    /\ \/ OnTranscription(m)
       \/ OnTranscriptionResult(m, FALSE)

C19_DeliveredConfidenceIsPercent ==
    [][ \A m \in ResultMsgs :
          AcceptedTranscriptionOf(m) =>
            /\ Shown'.original = m.transcript
            /\ Shown'.confidence =
                  IF m.confidence = NoNum THEN 0 ELSE m.confidence * 100
            /\ Shown'.confidence = confidence' ]_vars

\* the overlay shows 92 % (9200 hundredths) for a transcription with 0.92
C19_Witness ==
    /\ applied.cat = "transcription" /\ applied.accepted /\ applied.at = now
    /\ captionWindow # NoWindow
    /\ Shown.original = transcription /\ Shown.confidence = 9200
    /\ confidence = 9200

NoOverlay ==
    captionWindow = NoWindow \/ windows[captionWindow].life = "destroyed"

\* C21: with no overlay window (Absent or destroyed) publish changes no
\* state and retains nothing: a window created afterwards starts without a
\* caption and receives one only from a later publish made while it exists.
C21_PublishWithoutOverlayIsNoOp ==
    [][ /\ \A data \in PublishInputs :
              (NoOverlay /\ Publish(data)) => UNCHANGED <<mainVars, appVars>>
        /\ Len(windows') > Len(windows)
              => windows'[Len(windows')].shown = NoCaption
        /\ \A w \in WindowIds :
              ( /\ windows'[w].shown # windows[w].shown
                /\ windows'[w].shown # NoCaption )
              => /\ captionWindow = w /\ ~NoOverlay
                 /\ \E data \in PublishInputs : Publish(data)
                 /\ windows'[w].shown = published'.state ]_vars

\* a caption was published while the overlay was Absent, and the window
\* created afterwards is Visible with its page loaded and shows no caption
C21_Witness ==
    /\ published.to = "Absent" /\ published.state # NoCaption
    /\ OverlayState = "Visible" /\ Listening(captionWindow)
    /\ Shown = NoCaption

\* C22: publish canonicalizes every incoming state: confidence is 0 when
\* missing or not a number, translation is the empty string when missing,
\* sourceLanguage is auto and targetLanguage is en when missing; supplied
\* values of these fields are delivered unchanged.
C22_PublishCanonicalizes ==
    published # NoPublish =>
      LET data == published.data
      IN  /\ Shown = published.state
          /\ Shown.confidence =
                IF data.confidence \in {NoNum, NotANumber} THEN 0
                ELSE data.confidence
          /\ data.translation \notin {NoText, ""}
                => Shown.translation = data.translation
          /\ (data.translation = NoText /\ data.translated = NoText)
                => Shown.translation = ""
          /\ Shown.sourceLanguage =
                IF data.sourceLanguage = NoText THEN "auto"
                ELSE data.sourceLanguage
          /\ Shown.targetLanguage =
                IF data.target_language = NoText THEN "en"
                ELSE data.target_language
          /\ Shown.original = data.original

\* the overlay shows a caption whose optional fields were all missing
C22_Witness ==
    /\ published.to = "Visible" /\ Shown = published.state
    /\ Shown.original = "Hola" /\ Shown.translation = ""
    /\ Shown.confidence = 0
    /\ Shown.sourceLanguage = "auto" /\ Shown.targetLanguage = "en"

\* C23 (as stated): publish keeps the timestamp supplied in the incoming
\* state and stamps the current time only when there is none.
C23_SuppliedTimestampKept ==
    published # NoPublish =>
      Shown.timestamp = IF published.data.timestamp = NoNum
                        THEN published.state.timestamp
                        ELSE published.data.timestamp

\* C25: a payload that carries the translated text under `translated`
\* gives the same CaptionState.translation as the payload that carries it
\* under `translation` and is otherwise equal.
UnderTranslation(data) ==
    [data EXCEPT !.translation = data.translated, !.translated = NoText]

C24_DeliveredTimestampMonotonic ==
    [][ Shown.timestamp # NoNum => Shown'.timestamp >= Shown.timestamp ]_vars

\* a caption published directly was followed, later, by a caption delivered
\* from a transcription or an enhancement
C24_Witness ==
    /\ published.to = "Visible"
    /\ applied.cat \in {"transcription", "enhancement"} /\ applied.accepted
    /\ Shown.timestamp = applied.at
    /\ published.state.timestamp < Shown.timestamp

C28_FallbackKeepsStateAndNotifies ==
    [][ \A r \in AudioSources, a \in AudioSources :
          OnAudioSourceStatus("fallback", r, a)
          => /\ UNCHANGED <<isListening, isTranscribing, isConnected,
                            wsState>>
             /\ SessionState' = SessionState
             /\ applied'.notice ]_vars

\* C29: an audio_chunk message, in any state of the session, changes at
\* most the language indicator and the language-category timestamp: the
\* transcription, the translation, the caption on the overlay, the
\* transcription-category timestamp and the connection and capture state
\* stay as they were
C29_AudioChunkFrame ==
    [][ (\E v \in Volumes : OnAudioChunk(v))
        => /\ UNCHANGED <<transcription, translation, confidence,
                          translationConfidence, lastTranscriptionUpdate,
                          lastAgentUpdate, acceptLog>>
           /\ UNCHANGED <<windows, captionWindow, captionEnabled, published>>
           /\ UNCHANGED <<isListening, isTranscribing, isConnected, wsState,
                          listenCalls, languageConfig>>
           /\ SessionState' = SessionState ]_vars

\* before any start_capture, with a transcription on the overlay, an audio
\* chunk set the volume indicator
C29_Witness ==
    /\ applied.cat = "language" /\ applied.accepted
    /\ detectedLanguage.tag = "volume"
    /\ ~permission.requested /\ SessionState = "Connected"
    /\ transcription = "Hola" /\ Shown.original = "Hola"

\* C30: an applied enhancement never lowers the confidence of the caption
\* on the overlay, also when the enhancement carries no confidence
C30_EnhancementKeepsConfidence ==
    [][ ( /\ applied' # applied /\ applied'.cat = "enhancement"
          /\ captionWindow # NoWindow
          /\ Listening(captionWindow)
          /\ Shown # NoCaption )
        => Shown'.confidence >= Shown.confidence ]_vars

\* caption windows that exist and have not been asked to close
LiveWindows == { w \in WindowIds : windows[w].life = "live" }

\* C31 (as stated): in every reachable state at most one caption window is
\* live, and every live caption window is the one the handle names
C31_OneLiveWindowUnderHandle ==
    /\ Cardinality(LiveWindows) <= 1
    /\ \A w \in LiveWindows : captionWindow = w

\* a disable() has returned for the window the handle still names, and no
\* call has been issued since: a later enable or force-show either returns
\* at once, or starts a creation, which needs the handle to be clear
DisabledAndQuiet ==
    /\ ret.op = "disable" /\ ret.win # NoWindow
    /\ captionWindow = ret.win
    /\ ~windows[captionWindow].visible

\* C32 (as stated): once disable() has returned the overlay is not Visible
\* until a later enable() is issued; the ready-to-show signal of an earlier
\* enable() does not show the window again
C32_DisabledStaysHidden ==
    [][ (DisabledAndQuiet /\ ret' = ret /\ captionWindow' = captionWindow)
        => ~windows'[captionWindow].visible ]_vars

\* C33 (as stated): whenever captionEnabled is true a caption window handle
\* exists; the flag is never true while the overlay is Absent
C33_EnabledImpliesHandle ==
    captionEnabled => captionWindow # NoWindow

\* C34 (as stated): the client never sends a second start_capture without
\* a stop_capture in between, also when toggleListening is called again
\* while an earlier call awaits the permission answer
C34_NoSecondStartCapture ==
    permission.starts <= 1

\* C35 (as stated): when a call that shows, hides or removes the caption
\* window has returned, or the window was closed from outside, the flag
\* that is-caption-enabled returns equals "the window exists and is shown"
C35_FlagEqualsVisibility ==
    [][ (ret' # ret \/ \E w \in WindowIds : Closed(w))
        => (captionEnabled' <=> OverlayState' = "Visible") ]_vars

\* C36 (as stated): the transcription category's timestamp advances only
\* when the caption state is updated; an event with an empty or blank
\* transcript does not take the throttle slot
C36_BlankKeepsThrottleSlot ==
    [][ lastTranscriptionUpdate' # lastTranscriptionUpdate
        => ( /\ acceptLog' # acceptLog
             /\ TrimTruthy(transcription') ) ]_vars

C38_FlagsPreserved ==
    ( /\ published # NoPublish
      /\ published.updates = 1
      /\ Shown = published.state )
    => /\ Shown.fromTranscription = published.data.fromTranscription
       /\ Shown.isRealTime = published.data.isRealTime

\* C39 (as stated): for a recognizer confidence c in [0,1] the indicator
\* the overlay shows for the resulting caption is high iff c >= 0.8, low
\* iff 0.6 <= c < 0.8 and very-low otherwise (c in hundredths)
C39_IndicatorFollowsRecognizer ==
    [][ \A m \in IndicatorMsgs :
          ( /\ OnTranscriptionResult(m, FALSE)
            /\ applied'.accepted
            /\ Listening(captionWindow) )
          => LET c == m.confidence
                 shown == updateConfidenceIndicator(Shown'.confidence)
             IN  /\ shown = "high" <=> c >= CONFIDENCE_HIGH
                 /\ shown = "low" <=> (CONFIDENCE_LOW <= c
                                       /\ c < CONFIDENCE_HIGH)
                 /\ shown = "very-low" <=> c < CONFIDENCE_LOW ]_vars

====
